---- MODULE Spec2Model ----
(***************************************************************************)
(* opicrawler: the coalescing LRU/TTL cache (async_memoize.py) and the     *)
(* three rate-limited batch runners (async_requests.py,                    *)
(* async_ai_extraction.py, async_screenshots.py), as state machines whose  *)
(* steps are the stretches of code between two suspension points of the    *)
(* asyncio event loop.                                                     *)
(***************************************************************************)
EXTENDS Integers, Sequences, FiniteSets, TLC

\* ------------------------------------------------------------- bounds
NumCallers == 4
MaxTime == 2
NumJobs == 3
ConcurrencyLimit == 2

\* ---------------------------------------------------- program constants
None == -1
MaxSize == 2
TTL == 1
Keys == {1, 2, 3}

FetchAttempts == 4
WaitInitial == 1
WaitMax == 5
WaitJitter == 2
ExtractAttempts == 6
CaptureAttempts == 4

Callers == 1..NumCallers
Jobs == 1..NumJobs
Kinds == {"responses", "extracts", "screenshots"}

VARIABLES
    max_size,     \* self.max_size: None or MaxSize
    ttl,          \* self.ttl: None or TTL
    cache,        \* self.cache: OrderedDict, a sequence of entries, oldest first
    lock_map,     \* self.lock_map: key -> lock object (an id)
    locks,        \* the asyncio.Lock objects alive: id -> [locked, waiters]
    pc,           \* per caller of wrapper: idle, waiting, computing, done, failed
    key,          \* per caller: the key argument of its call (0 before the call)
    lockOf,       \* per caller: the lock object it waits on or holds (0: none)
    result,       \* per caller: the value wrapper returned (0: none yet)
    now,          \* time.time()
    wakeAt,       \* when the cleanup task's asyncio.sleep(self.ttl) is over
    accessOrder,  \* history: the cached keys, least recently accessed first
    lastAccess,   \* history: per cached key, the time of its last insertion or hit
    joined,       \* history: pairs {c, d} of callers of one key, c called while d
                  \* was in flight and no valid entry for the key was cached
    closed,       \* close() has deleted self.cache and self.lock_map
    close_raised, \* a call of close() raised
    cleanup_task, \* self.cleanup_task: none, sleeping, cancelling, finished
    tries         \* per caller: the failed attempts of the retry wrapper around
                  \* its call

cacheVars == <<max_size, ttl, cache, lock_map, locks, pc, key, lockOf, result,
               now, wakeAt, accessOrder, lastAccess, joined, closed, close_raised,
               cleanup_task, tries>>

lifeVars == <<closed, close_raised, cleanup_task, tries>>

VARIABLES
    kind,         \* which runner: gather_responses, gather_extracts, capture_screenshots
    runner,       \* idle, start, spawning, joining, returned, raised
    tasks,        \* the runner's list of tasks, as job numbers
    jpc,          \* per job: new, created, queued, running, done, raised, cancelled
    stage,        \* per running job: the awaited call of its operation
    attempt,      \* per running job: the attempt of the retry wrapper
    data,         \* per job: the keys of the dict its task returns
    page,         \* per job: the keys the job added to the caller's input dict
    sem_value,    \* asyncio.Semaphore._value
    sem_waiters,  \* asyncio.Semaphore._waiters, as job numbers
    woken,        \* the waiters whose future has a result
    aborting,     \* TaskGroup._aborting
    results,      \* the list the runner returns
    total,        \* progress: the announced total
    started,      \* progress: the secondary counter
    completed,    \* progress: the primary counter
    open_pages,   \* browser pages opened and not closed
    outcome,      \* history: how the job's operation ended
    outOfOrder,   \* history: a job settled before a job submitted earlier
    exhausted,    \* history: a job failed on the last attempt of its retry budget
    concurrency_limit,  \* the runner's argument
    sinceAdmit    \* history: what has passed since the last admission of a job
                  \* that is not the last: none (no admission), spawn (it was
                  \* admitted as the runner began a sleep), slept (that sleep is
                  \* over), late (it was admitted at some later moment)

runnerVars == <<kind, runner, tasks, jpc, stage, attempt, data, page, sem_value,
                sem_waiters, woken, aborting, results, total, started, completed,
                open_pages, outcome, outOfOrder, exhausted,
                   concurrency_limit, sinceAdmit>>

\* one job of gather_responses, seen call by call: a record of
\*   rpc          _request: idle, head, get, backoff, dns, fetch, returned, raised
\*   op           the function the running retry wrapper wraps, or none
\*   scheme       the scheme of the loop of _resolve_url, or none
\*   calls        calls of the wrapped function made by the running retry wrapper
\*   delays       the backoff delays the running retry wrapper has computed
\*   final_url    results["final_url"]: which request's response.url, or NoUrl
\*   start_url    results["start_url"]: its scheme, or none
\*   url_resolution_errors   the list of _resolve_url
\*   keys         the keys _request itself has put into data
\*   error        the exception that left _request, or NoExc
\*   tried        history: the schemes _resolve_redirects was called for
\*   head_result  history: how the HEAD of the last call of _resolve_redirects
\*                ended: a response, an exception, or NoExc while it is awaited
\*   gets         history: the ranged GETs of the last call of _resolve_redirects
\*   last         history: how the last retry wrapper was left
\*   classified   history: the last exception given to _error_to_retry
\*   did          history: the calls _request awaited after _resolve_url
VARIABLE request

\* one call of filename_safe_encode: its arguments and what it returned,
\* strings as sequences of code points
VARIABLE filename

vars == <<cacheVars, runnerVars, request, filename>>

\* ------------------------------------------------ OrderedDict operations
CacheKeys(ch) == {ch[i].key : i \in 1..Len(ch)}

Entry(ch, k) == ch[CHOOSE i \in 1..Len(ch) : ch[i].key = k]

Without(ch, ks) == SelectSeq(ch, LAMBDA e : e.key \notin ks)

move_to_end(ch, k) == Append(Without(ch, {k}), Entry(ch, k))

popitem(ch) == Tail(ch)

setitem(ch, k, v, t) ==
    LET e == [key |-> k, value |-> v, timestamp |-> t]
    IN  IF k \in CacheKeys(ch)
        THEN [i \in 1..Len(ch) |-> IF ch[i].key = k THEN e ELSE ch[i]]
        ELSE Append(ch, e)

\* --------------------------------------------------- cache configuration
autoclean == ttl # None

IsValid(timestamp) == ttl = None \/ now <= timestamp + ttl

IsCached(k) == k \in CacheKeys(cache) /\ IsValid(Entry(cache, k).timestamp)

NeedsPurge(ch) == max_size # None /\ Len(ch) >= max_size

\* faulty variant: a sweep that takes every entry for expired
expired_keys_all(ch, current_time) == CacheKeys(ch)

\* the sweep's scan of the entries
expired_keys(ch, current_time) ==
    {k \in CacheKeys(ch) : current_time > Entry(ch, k).timestamp + ttl}

\* ------------------------------------------------------- asyncio.Lock
NewLock == [locked |-> FALSE, waiters |-> <<>>]

FreshId(lk) == CHOOSE i \in 1..(Cardinality(DOMAIN lk) + 1) : i \notin DOMAIN lk

\* Lock.acquire() returns without suspending
CanAcquire(l) == ~l.locked /\ l.waiters = <<>>

\* faulty variant: a lock that stays locked
release_kept(lk, id) == lk

\* Lock.release(): the first waiter's future is set; it takes the lock when
\* the loop runs it (Woken)
release(lk, id) == [lk EXCEPT ![id].locked = FALSE]

Woken(c) ==
    /\ pc[c] = "waiting"
    /\ ~locks[lockOf[c]].locked
    /\ Head(locks[lockOf[c]].waiters) = c

\* lock objects no longer referenced are collected
Referenced(lm, lo) ==
    ({lm[k] : k \in DOMAIN lm} \cup {lo[c] : c \in Callers}) \ {0}

Collect(lk, lm, lo) == [i \in DOMAIN lk \cap Referenced(lm, lo) |-> lk[i]]

\* faulty variant: the sweep and the purge leave the locks in the table
pop_keeps(lm, ks) == lm

\* self.lock_map.pop(key, None), for each key of ks
pop(lm, ks) == [k \in DOMAIN lm \ ks |-> lm[k]]

\* history of accesses
Touch(order, k) == Append(SelectSeq(order, LAMBDA x : x # k), k)

InFlight(k) == {c \in Callers : pc[c] \in {"waiting", "computing"} /\ key[c] = k}

\* -------------------------------------------------------------- Init
\* CoalescingCache(max_size=ms, ttl=t), decorating a function
CacheMade(ms, t) ==
    /\ max_size = ms
    /\ ttl = t
    /\ cache = <<>>
    /\ lock_map = <<>>
    /\ locks = <<>>
    /\ pc = [c \in Callers |-> "idle"]
    /\ key = [c \in Callers |-> 0]
    /\ lockOf = [c \in Callers |-> 0]
    /\ result = [c \in Callers |-> 0]
    /\ now = 0
    /\ wakeAt = IF ttl = None THEN 0 ELSE ttl
    /\ accessOrder = <<>>
    /\ lastAccess = [k \in Keys |-> 0]
    /\ joined = {}
    /\ closed = FALSE
    /\ close_raised = FALSE
    /\ cleanup_task = IF t = None THEN "none" ELSE "sleeping"
    /\ tries = [c \in Callers |-> 0]

InitCache == \E ms \in {None, MaxSize}, t \in {None, TTL} : CacheMade(ms, t)

\* ------------------------------------------------------------ wrapper
\* Lines 44-58, run by caller c holding lock id: a hit returns, a miss
\* purges the least recently used item and suspends in func.
UnderLock(c, k, lm, lk, id) ==
    IF IsCached(k)
    THEN /\ cache' = move_to_end(cache, k)
         /\ result' = [result EXCEPT ![c] = Entry(cache, k).value]
         /\ pc' = [pc EXCEPT ![c] = "done"]
         /\ lockOf' = [lockOf EXCEPT ![c] = 0]
         /\ lock_map' = lm
         /\ locks' = Collect(release(lk, id), lm, lockOf')
         /\ accessOrder' = Touch(accessOrder, k)
         /\ lastAccess' = [lastAccess EXCEPT ![k] = now]
    ELSE LET purge == NeedsPurge(cache)
             lru_key == Head(cache).key
         IN  /\ cache' = IF purge THEN popitem(cache) ELSE cache
             /\ lock_map' = IF purge THEN pop(lm, {lru_key}) ELSE lm
             /\ pc' = [pc EXCEPT ![c] = "computing"]
             /\ lockOf' = [lockOf EXCEPT ![c] = id]
             /\ locks' = Collect(lk, lock_map', lockOf')
             /\ accessOrder' = IF purge
                                 THEN SelectSeq(accessOrder, LAMBDA x : x # lru_key)
                                 ELSE accessOrder
             /\ lastAccess' = IF purge
                                THEN [lastAccess EXCEPT ![lru_key] = 0]
                                ELSE lastAccess
             /\ UNCHANGED result

\* line 43 for caller c and key k: the key's lock is taken, or c queues on it
Invoke(c, k) ==
    /\ LET id == IF k \in DOMAIN lock_map THEN lock_map[k] ELSE FreshId(locks)
           lm == IF k \in DOMAIN lock_map THEN lock_map ELSE lock_map @@ (k :> id)
           lk == IF id \in DOMAIN locks THEN locks ELSE locks @@ (id :> NewLock)
       IN  /\ key' = [key EXCEPT ![c] = k]
           /\ joined' = IF IsCached(k)
                        THEN joined
                        ELSE joined \cup {{c, d} : d \in InFlight(k)}
           /\ IF CanAcquire(lk[id])
              THEN UnderLock(c, k, lm, [lk EXCEPT ![id].locked = TRUE], id)
              ELSE /\ locks' = [lk EXCEPT ![id].waiters = Append(@, c)]
                   /\ lock_map' = lm
                   /\ pc' = [pc EXCEPT ![c] = "waiting"]
                   /\ lockOf' = [lockOf EXCEPT ![c] = id]
                   /\ UNCHANGED <<cache, result, accessOrder, lastAccess>>
    /\ UNCHANGED <<max_size, ttl, now, wakeAt>>
    /\ UNCHANGED lifeVars
    /\ UNCHANGED runnerVars
    /\ UNCHANGED <<request, filename>>

\* wrapper(key) is called: line 43 takes the key's lock or queues on it.
\* Callers and keys are interchangeable: the callers call in the order of
\* their numbers, and a key is first used after the keys below it.
Call(c, k) ==
    /\ ~closed
    /\ pc[c] = "idle"
    /\ \A d \in Callers : d < c => pc[d] # "idle"
    /\ \A j \in Keys : j < k => j \in {key[d] : d \in Callers}
    /\ Invoke(c, k)

\* a queued caller whose future was set by release() takes the lock
Resume(c) ==
    /\ ~closed
    /\ Woken(c)
    /\ LET id == lockOf[c]
           lk == [locks EXCEPT ![id] = [locked |-> TRUE, waiters |-> Tail(@.waiters)]]
       IN  UnderLock(c, key[c], lock_map, lk, id)
    /\ UNCHANGED <<max_size, ttl, key, now, wakeAt, joined>>
    /\ UNCHANGED lifeVars
    /\ UNCHANGED runnerVars
    /\ UNCHANGED <<request, filename>>

\* func returns: lines 59-60, then the lock is released
FuncReturn(c) ==
    /\ ~closed
    /\ pc[c] = "computing"
    /\ cache' = setitem(cache, key[c], c, now)
    /\ result' = [result EXCEPT ![c] = c]
    /\ pc' = [pc EXCEPT ![c] = "done"]
    /\ lockOf' = [lockOf EXCEPT ![c] = 0]
    /\ locks' = Collect(release(locks, lockOf[c]), lock_map, lockOf')
    /\ accessOrder' = Touch(accessOrder, key[c])
    /\ lastAccess' = [lastAccess EXCEPT ![key[c]] = now]
    /\ UNCHANGED <<max_size, ttl, lock_map, key, now, wakeAt, joined>>
    /\ UNCHANGED lifeVars
    /\ UNCHANGED runnerVars
    /\ UNCHANGED <<request, filename>>

\* faulty variant: the failure is stored as the key's item
raised_stored(ch, k, c, t) == setitem(ch, k, c, t)

\* the cache when func raises at line 58: line 59 is not reached
raised(ch, k, c, t) == ch

\* func raises: the exception leaves wrapper through the async with
FuncRaise(c) ==
    /\ pc[c] = "computing"
    /\ pc' = [pc EXCEPT ![c] = "failed"]
    /\ lockOf' = [lockOf EXCEPT ![c] = 0]
    /\ locks' = Collect(release(locks, lockOf[c]), lock_map, lockOf')
    /\ cache' = raised(cache, key[c], c, now)
    /\ UNCHANGED <<max_size, ttl, lock_map, key, result, now, wakeAt,
                   accessOrder, lastAccess, joined>>
    /\ UNCHANGED lifeVars
    /\ UNCHANGED runnerVars
    /\ UNCHANGED <<request, filename>>

\* faulty variant: a cancelled caller that keeps the lock
exit_keeps(lk, id) == lk

\* Lock.__aexit__ when the CancelledError leaves the async with block
exit(lk, id) == release(lk, id)

\* the task of caller c is cancelled. In func (line 58) the CancelledError
\* leaves wrapper through the async with, before line 59; in Lock.acquire
\* (line 43) the waiter is removed, and if the lock is free the next one
\* is woken
CancelCaller(c) ==
    /\ pc[c] \in {"waiting", "computing"}
    /\ pc' = [pc EXCEPT ![c] = "cancelled"]
    /\ lockOf' = [lockOf EXCEPT ![c] = 0]
    /\ locks' = IF pc[c] = "computing"
                THEN Collect(exit(locks, lockOf[c]), lock_map, lockOf')
                ELSE Collect([locks EXCEPT ![lockOf[c]].waiters =
                                 SelectSeq(@, LAMBDA x : x # c)],
                             lock_map, lockOf')
    /\ UNCHANGED <<max_size, ttl, cache, lock_map, key, result, now, wakeAt,
                   accessOrder, lastAccess, joined>>
    /\ UNCHANGED lifeVars
    /\ UNCHANGED runnerVars
    /\ UNCHANGED <<request, filename>>

\* ------------------------------------------------ _cleanup_periodically
Sweep ==
    /\ autoclean
    /\ cleanup_task = "sleeping"
    /\ now >= wakeAt
    /\ LET expired == expired_keys(cache, now)
       IN  /\ cache' = Without(cache, expired)
           /\ lock_map' = pop(lock_map, expired)
           /\ locks' = Collect(locks, lock_map', lockOf)
           /\ accessOrder' = SelectSeq(accessOrder, LAMBDA x : x \notin expired)
           /\ lastAccess' = [k \in Keys |-> IF k \in expired THEN 0 ELSE lastAccess[k]]
    /\ wakeAt' = now + ttl
    /\ UNCHANGED <<max_size, ttl, pc, key, lockOf, result, now, joined>>
    /\ UNCHANGED lifeVars
    /\ UNCHANGED runnerVars
    /\ UNCHANGED <<request, filename>>

\* time passes, for MaxTime periods of ttl; a step of the loop takes far
\* less than a unit of time, so a caller the loop is about to run runs first
Tick ==
    /\ ttl # None
    /\ now < MaxTime * ttl
    /\ \A c \in Callers : ~Woken(c)
    /\ now' = now + 1
    /\ UNCHANGED <<max_size, ttl, cache, lock_map, locks, pc, key, lockOf, result,
                   wakeAt, accessOrder, lastAccess, joined>>
    /\ UNCHANGED lifeVars
    /\ UNCHANGED runnerVars
    /\ UNCHANGED <<request, filename>>

\* ---------------------------------------------------------------- close
\* faulty variant: close() that leaves the cleanup task alone
cancel_ignored(task) == task

\* Task.cancel(): a CancelledError is to be thrown into the task at its await
cancel(task) == IF task = "sleeping" THEN "cancelling" ELSE task

\* close(): lines 103-106; del of an attribute that is gone raises
\* AttributeError
Close ==
    /\ ~close_raised
    /\ cleanup_task' = IF autoclean THEN cancel(cleanup_task) ELSE cleanup_task
    /\ IF closed
       THEN /\ close_raised' = TRUE
            /\ UNCHANGED <<cache, lock_map, locks, accessOrder, lastAccess, closed>>
       ELSE /\ closed' = TRUE
            /\ cache' = <<>>
            /\ lock_map' = <<>>
            /\ locks' = Collect(locks, <<>>, lockOf)
            /\ accessOrder' = <<>>
            /\ lastAccess' = [k \in Keys |-> 0]
            /\ UNCHANGED close_raised
    /\ UNCHANGED <<max_size, ttl, pc, key, lockOf, result, now, wakeAt, joined, tries>>
    /\ UNCHANGED runnerVars
    /\ UNCHANGED <<request, filename>>

\* the cleanup task gets the CancelledError in asyncio.sleep, logs it and
\* returns: lines 88-89
CleanupExit ==
    /\ cleanup_task = "cancelling"
    /\ cleanup_task' = "finished"
    /\ UNCHANGED <<max_size, ttl, cache, lock_map, locks, pc, key, lockOf, result,
                   now, wakeAt, accessOrder, lastAccess, joined, closed, close_raised,
                   tries>>
    /\ UNCHANGED runnerVars
    /\ UNCHANGED <<request, filename>>

\* wrapper touches self.lock_map or self.cache after close(): a call, a
\* waiter that got the lock, or the store of line 59 raise AttributeError
UseAfterClose(c) ==
    /\ closed
    /\ \/ pc[c] = "idle" /\ \A d \in Callers : d < c => pc[d] # "idle"
       \/ pc[c] = "computing"
       \/ Woken(c)
    /\ pc' = [pc EXCEPT ![c] = "failed"]
    /\ lockOf' = [lockOf EXCEPT ![c] = 0]
    /\ locks' = IF pc[c] = "idle" THEN locks
                ELSE IF pc[c] = "computing"
                THEN Collect(release(locks, lockOf[c]), lock_map, lockOf')
                ELSE Collect([locks EXCEPT ![lockOf[c]].waiters = Tail(@)],
                             lock_map, lockOf')
    /\ UNCHANGED <<max_size, ttl, cache, lock_map, key, result, now, wakeAt,
                   accessOrder, lastAccess, joined>>
    /\ UNCHANGED lifeVars
    /\ UNCHANGED runnerVars
    /\ UNCHANGED <<request, filename>>

NextCache ==
    \/ \E c \in Callers, k \in Keys : Call(c, k)
    \/ \E c \in Callers : Resume(c)
    \/ \E c \in Callers : FuncReturn(c)
    \/ \E c \in Callers : FuncRaise(c)
    \/ Sweep
    \/ Tick

\* =========================================================== runners
Unsettled == {"created", "queued", "running"}

AttemptsMax(k) ==
    IF k = "extracts" THEN ExtractAttempts
    ELSE IF k = "screenshots" THEN CaptureAttempts
    ELSE FetchAttempts

FirstStage(k) ==
    IF k = "extracts" THEN "completion"
    ELSE IF k = "screenshots" THEN "new_page"
    ELSE "https"

\* faulty variant: a retry wrapper without a limit of attempts
may_retry_forever(k, n) == TRUE

\* stamina: another attempt is made after n of them
may_retry(k, n) == n < AttemptsMax(k)

\* CustomProgress.update(advance_secondary=1)
advance_secondary(n) == IF n + 1 < total THEN n + 1 ELSE total

\* ----------------------------------------------------- asyncio.Semaphore
\* faulty variant: a semaphore that never makes a task wait
sem_locked_never(value, waiters) == FALSE

\* Semaphore.locked(), which acquire() tests
sem_locked(value, waiters) == value = 0 \/ waiters # <<>>

Unwoken(waiters, wk) == {n \in 1..Len(waiters) : waiters[n] \notin wk}

FirstUnwoken(waiters, wk) ==
    waiters[CHOOSE n \in Unwoken(waiters, wk) : \A m \in Unwoken(waiters, wk) : n <= m]

\* faulty variant: a slot that is not given back
sem_release_kept(value, waiters, wk) == [value |-> value, woken |-> wk]

\* Semaphore.release(): the value goes to the first waiter without a result
sem_release(value, waiters, wk) ==
    IF Unwoken(waiters, wk) = {}
    THEN [value |-> value + 1, woken |-> wk]
    ELSE [value |-> value, woken |-> wk \cup {FirstUnwoken(waiters, wk)}]

\* the end of Semaphore.acquire(): wake up as many waiters as are allowed
RECURSIVE wake_up_allowed(_, _, _)
wake_up_allowed(value, waiters, wk) ==
    IF value > 0 /\ Unwoken(waiters, wk) # {}
    THEN wake_up_allowed(value - 1, waiters, wk \cup {FirstUnwoken(waiters, wk)})
    ELSE [value |-> value, woken |-> wk]

\* faulty variants: no except clause, and a bare except
except_matches_none(k, st, cls) == FALSE

except_matches_all(k, st, cls) == TRUE

\* which errors the except clause around a stage's call catches: the DNS
\* lookup of _request is outside any try
except_matches(k, st, cls) == cls = "recognized" /\ st # "dns"

\* faulty variant: the tasks are kept newest first
append_task_front(ts, i) == <<i>> \o ts

\* tasks.append(task)
append_task(ts, i) == Append(ts, i)

\* [task.result() for task in tasks]
gather(ts, d) == [n \in 1..Len(ts) |-> [identifier |-> ts[n], fields |-> d[ts[n]]]]

\* ---------------------------------------------------------------- Init
\* no runner has been called yet; limit is the concurrency_limit it will get
RunnerWith(limit) ==
    /\ concurrency_limit = limit
    /\ sinceAdmit = "none"
    /\ kind = "none"
    /\ runner = "idle"
    /\ tasks = <<>>
    /\ jpc = [i \in Jobs |-> "new"]
    /\ stage = [i \in Jobs |-> "none"]
    /\ attempt = [i \in Jobs |-> 0]
    /\ data = [i \in Jobs |-> {}]
    /\ page = [i \in Jobs |-> {}]
    /\ sem_value = 0
    /\ sem_waiters = <<>>
    /\ woken = {}
    /\ aborting = FALSE
    /\ results = <<>>
    /\ total = 0
    /\ started = 0
    /\ completed = 0
    /\ open_pages = 0
    /\ outcome = [i \in Jobs |-> "none"]
    /\ outOfOrder = FALSE
    /\ exhausted = FALSE

RunnerIdle == RunnerWith(ConcurrencyLimit)

CacheIdle ==
    /\ max_size = None
    /\ ttl = None
    /\ cache = <<>>
    /\ lock_map = <<>>
    /\ locks = <<>>
    /\ pc = [c \in Callers |-> "idle"]
    /\ key = [c \in Callers |-> 0]
    /\ lockOf = [c \in Callers |-> 0]
    /\ result = [c \in Callers |-> 0]
    /\ now = 0
    /\ wakeAt = 0
    /\ accessOrder = <<>>
    /\ lastAccess = [k \in Keys |-> 0]
    /\ joined = {}
    /\ closed = FALSE
    /\ close_raised = FALSE
    /\ cleanup_task = "none"
    /\ tries = [c \in Callers |-> 0]

\* a runner is called with NumJobs jobs
RunnerCalled(k) ==
    /\ runner = "idle"
    /\ kind' = k
    /\ runner' = "start"
    /\ UNCHANGED <<tasks, jpc, stage, attempt, data, page, sem_value, sem_waiters,
                   woken, aborting, results, total, started, completed, open_pages,
                   outcome, outOfOrder, exhausted,
                   concurrency_limit, sinceAdmit>>
    /\ UNCHANGED cacheVars
    /\ UNCHANGED <<request, filename>>

\* the semaphore is made and the total announced
Start ==
    /\ runner = "start"
    /\ runner' = "spawning"
    /\ sem_value' = concurrency_limit
    /\ total' = NumJobs
    /\ UNCHANGED <<kind, tasks, jpc, stage, attempt, data, page, sem_waiters, woken,
                   aborting, results, started, completed, open_pages, outcome,
                   outOfOrder, exhausted,
                   concurrency_limit, sinceAdmit>>
    /\ UNCHANGED cacheVars
    /\ UNCHANGED <<request, filename>>

\* await asyncio.sleep(1/tasks_per_second) is over: a whole sleep has passed
\* since an admission made as the sleep began, the rest of one since a
\* later admission
sleep_over(since) ==
    IF since = "late" THEN "spawn" ELSE IF since = "spawn" THEN "slept" ELSE since

\* tg.create_task(...); tasks.append(task); then the runner sleeps, and the
\* loop runs the first step of the new task before the sleep is over
Spawn ==
    /\ runner = "spawning"
    /\ Len(tasks) < NumJobs
    /\ \A j \in Jobs : jpc[j] # "created"
    /\ LET i == Len(tasks) + 1
       IN  /\ jpc' = [jpc EXCEPT ![i] = "created"]
           /\ tasks' = append_task(tasks, i)
    /\ sinceAdmit' = sleep_over(sinceAdmit)
    /\ UNCHANGED <<kind, runner, stage, attempt, data, page, sem_value, sem_waiters,
                   woken, aborting, results, total, started, completed, open_pages,
                   outcome, outOfOrder, exhausted, concurrency_limit>>
    /\ UNCHANGED cacheVars
    /\ UNCHANGED <<request, filename>>

\* the loop over the jobs is over: the TaskGroup waits for its tasks
EndSpawn ==
    /\ runner = "spawning"
    /\ Len(tasks) = NumJobs
    /\ \A j \in Jobs : jpc[j] # "created"
    /\ runner' = "joining"
    /\ sinceAdmit' = sleep_over(sinceAdmit)
    /\ UNCHANGED <<kind, tasks, jpc, stage, attempt, data, page, sem_value,
                   sem_waiters, woken, aborting, results, total, started, completed,
                   open_pages, outcome, outOfOrder, exhausted, concurrency_limit>>
    /\ UNCHANGED cacheVars
    /\ UNCHANGED <<request, filename>>

\* job i holds a slot and starts its operation
Enter(i) ==
    /\ jpc' = [jpc EXCEPT ![i] = "running"]
    /\ stage' = [stage EXCEPT ![i] = FirstStage(kind)]
    /\ attempt' = [attempt EXCEPT ![i] = 1]
    /\ started' = advance_secondary(started)

\* the first step of job i's task: async with semaphore
Begin(i) ==
    /\ jpc[i] = "created"
    /\ ~aborting
    /\ IF sem_locked(sem_value, sem_waiters)
       THEN /\ sem_waiters' = Append(sem_waiters, i)
            /\ jpc' = [jpc EXCEPT ![i] = "queued"]
            /\ UNCHANGED <<sem_value, stage, attempt, started, sinceAdmit>>
       ELSE /\ sem_value' = sem_value - 1
            /\ Enter(i)
            /\ sinceAdmit' = IF i = NumJobs THEN "none" ELSE "spawn"
            /\ UNCHANGED sem_waiters
    /\ UNCHANGED <<kind, runner, tasks, data, page, woken, aborting, results, total,
                   completed, open_pages, outcome, outOfOrder, exhausted,
                   concurrency_limit>>
    /\ UNCHANGED cacheVars
    /\ UNCHANGED <<request, filename>>

\* a waiter whose future has a result leaves Semaphore.acquire()
WakeUp(i) ==
    /\ jpc[i] = "queued"
    /\ i \in woken
    /\ ~aborting
    /\ \A j \in Jobs : jpc[j] # "created"
    /\ LET ws == SelectSeq(sem_waiters, LAMBDA x : x # i)
           w == wake_up_allowed(sem_value, ws, woken \ {i})
       IN  /\ sem_waiters' = ws
           /\ sem_value' = w.value
           /\ woken' = w.woken
    /\ Enter(i)
    /\ sinceAdmit' = IF i = NumJobs THEN "none" ELSE "late"
    /\ UNCHANGED <<kind, runner, tasks, data, page, aborting, results, total,
                   completed, open_pages, outcome, outOfOrder, exhausted,
                   concurrency_limit>>
    /\ UNCHANGED cacheVars
    /\ UNCHANGED <<request, filename>>

\* job i's task ends (p: done or raised) and leaves the async with
Finish(i, p, d, pg, out, adv) ==
    /\ jpc' = [jpc EXCEPT ![i] = p]
    /\ data' = [data EXCEPT ![i] = d]
    /\ page' = [page EXCEPT ![i] = pg]
    /\ outcome' = [outcome EXCEPT ![i] = out]
    /\ completed' = completed + adv
    /\ stage' = [stage EXCEPT ![i] = "none"]
    /\ attempt' = [attempt EXCEPT ![i] = 0]
    /\ LET r == sem_release(sem_value, sem_waiters, woken)
       IN  sem_value' = r.value /\ woken' = r.woken
    /\ outOfOrder' = (outOfOrder \/ \E j \in 1..(i - 1) : jpc[j] \in Unsettled)
    /\ exhausted' = (exhausted \/ (out = "failure" /\ attempt[i] = AttemptsMax(kind)))
    /\ UNCHANGED <<kind, runner, tasks, sem_waiters, aborting, results, total, started,
                   concurrency_limit, sinceAdmit>>

\* job i goes on to the next awaited call of its operation
Proceed(i, st, d, opened) ==
    /\ stage' = [stage EXCEPT ![i] = st]
    /\ attempt' = [attempt EXCEPT ![i] = IF st = "capture" THEN @ ELSE 1]
    /\ data' = [data EXCEPT ![i] = d]
    /\ open_pages' = open_pages + opened
    /\ UNCHANGED <<kind, runner, tasks, jpc, page, sem_value, sem_waiters, woken,
                   aborting, results, total, started, completed, outcome, outOfOrder, exhausted,
                   concurrency_limit, sinceAdmit>>

\* the first step of a new task is ahead, in the loop's queue, of every
\* step that an event after its creation makes ready
NoneCreated == \A j \in Jobs : jpc[j] # "created"

Running(i) == jpc[i] = "running" /\ ~aborting /\ NoneCreated

\* the awaited call of job i returns; b: the final URL is external to the
\* own addresses (dns), the completion is valid (completion)
OpOk(i, b) ==
    /\ Running(i)
    /\ stage[i] \notin {"dns", "completion"} => b
    /\ CASE stage[i] \in {"https", "http"} ->
                Proceed(i, "dns", data[i] \cup {"final_url", "start_url"}, 0)
         [] stage[i] = "dns" ->
                IF b
                THEN /\ Finish(i, "done", data[i] \cup {"ip_addresses", "external"},
                               page[i], "success", 0)
                     /\ UNCHANGED open_pages
                ELSE Proceed(i, "fetch", data[i] \cup {"ip_addresses"}, 0)
         [] stage[i] = "fetch" ->
                /\ Finish(i, "done", data[i] \cup {"html"}, page[i], "success", 1)
                /\ UNCHANGED open_pages
         [] stage[i] = "completion" ->
                /\ IF b
                   THEN Finish(i, "done", page[i] \cup {"ai_extracts"},
                               page[i] \cup {"ai_extracts"}, "success", 1)
                   ELSE Finish(i, "done", page[i], page[i], "invalid", 0)
                /\ UNCHANGED open_pages
         [] stage[i] = "new_page" ->
                Proceed(i, "capture", data[i], 1)
         [] stage[i] = "capture" ->
                /\ Finish(i, "done", page[i], page[i], "success", 1)
                /\ open_pages' = open_pages - 1
    /\ UNCHANGED cacheVars
    /\ UNCHANGED <<request, filename>>

\* the awaited call fails with a retryable error and the retry wrapper
\* calls the wrapped function again
OpRetry(i) ==
    /\ Running(i)
    /\ stage[i] # "dns"
    /\ may_retry(kind, attempt[i])
    /\ attempt' = [attempt EXCEPT ![i] = @ + 1]
    /\ stage' = [stage EXCEPT ![i] = IF kind = "screenshots" THEN "new_page" ELSE @]
    /\ started' = IF kind = "screenshots" THEN advance_secondary(started) ELSE started
    /\ UNCHANGED <<kind, runner, tasks, jpc, data, page, sem_value, sem_waiters, woken,
                   aborting, results, total, completed, open_pages, outcome, outOfOrder, exhausted,
                   concurrency_limit, sinceAdmit>>
    /\ UNCHANGED cacheVars
    /\ UNCHANGED <<request, filename>>

\* an error of class cls leaves the retry wrapper (or the call without one)
OpFail(i, cls) ==
    /\ Running(i)
    /\ cls = "recognized" => stage[i] # "dns"
    /\ LET out == IF cls # "recognized" THEN "defect" ELSE "failure"
       IN  IF ~except_matches(kind, stage[i], cls)
           THEN Finish(i, "raised", {}, page[i], out, 0)
           ELSE CASE stage[i] = "https" ->
                         /\ Proceed(i, "http", data[i] \cup {"url_resolution_errors"}, 0)
                  [] stage[i] = "http" ->
                         /\ Finish(i, "done", data[i] \cup {"url_resolution_errors"},
                                   page[i], out, 1)
                         /\ UNCHANGED open_pages
                  [] stage[i] = "fetch" ->
                         /\ Finish(i, "done", data[i] \cup {"html_fetch_error"},
                                   page[i], out, 1)
                         /\ UNCHANGED open_pages
                  [] stage[i] \in {"new_page", "capture"} ->
                         /\ Finish(i, "done", page[i] \cup {"screenshot_error"},
                                   page[i] \cup {"screenshot_error"}, out, 0)
                         /\ UNCHANGED open_pages
                  [] OTHER ->
                         /\ Finish(i, "done", page[i], page[i], out, 0)
                         /\ UNCHANGED open_pages
    /\ (~except_matches(kind, stage[i], cls)) => UNCHANGED open_pages
    /\ UNCHANGED cacheVars
    /\ UNCHANGED <<request, filename>>

\* TaskGroup._on_task_done of a task that raised: the other tasks and the
\* runner are cancelled; the future of a waiter without a result is cancelled
Abort ==
    /\ ~aborting
    /\ \E i \in Jobs : jpc[i] = "raised"
    /\ aborting' = TRUE
    /\ runner' = "joining"
    /\ sem_waiters' = SelectSeq(sem_waiters, LAMBDA x : x \in woken)
    /\ UNCHANGED <<kind, tasks, jpc, stage, attempt, data, page, sem_value, woken,
                   results, total, started, completed, open_pages, outcome, outOfOrder, exhausted,
                   concurrency_limit, sinceAdmit>>
    /\ UNCHANGED cacheVars
    /\ UNCHANGED <<request, filename>>

\* CancelledError is thrown into job i's task; the cancelled tasks do not
\* depend on each other's order, they are taken in the order of the jobs
Cancelled(i) ==
    /\ aborting
    /\ jpc[i] \in Unsettled
    /\ \A j \in 1..(i - 1) : jpc[j] \notin Unsettled
    /\ jpc' = [jpc EXCEPT ![i] = "cancelled"]
    /\ stage' = [stage EXCEPT ![i] = "none"]
    /\ attempt' = [attempt EXCEPT ![i] = 0]
    /\ data' = [data EXCEPT ![i] = {}]
    /\ IF jpc[i] = "running"
       THEN LET r == sem_release(sem_value, sem_waiters, woken)
            IN  /\ sem_value' = r.value
                /\ woken' = r.woken
                /\ UNCHANGED sem_waiters
       ELSE IF jpc[i] = "queued" /\ i \in woken
       THEN LET ws == SelectSeq(sem_waiters, LAMBDA x : x # i)
                w == wake_up_allowed(sem_value + 1, ws, woken \ {i})
            IN  /\ sem_waiters' = ws
                /\ sem_value' = w.value
                /\ woken' = w.woken
       ELSE UNCHANGED <<sem_value, sem_waiters, woken>>
    /\ UNCHANGED <<kind, runner, tasks, page, aborting, results, total, started,
                   completed, open_pages, outcome, outOfOrder, exhausted,
                   concurrency_limit, sinceAdmit>>
    /\ UNCHANGED cacheVars
    /\ UNCHANGED <<request, filename>>

\* faulty variant: a TaskGroup that does not wait for its tasks
all_done_unchecked(jp) == TRUE

\* TaskGroup.__aexit__ waits until none of its tasks is left
all_done(jp) == \A i \in Jobs : jp[i] \notin Unsettled

\* faulty variant: a runner that swallows its cancellation
left_as_returned(r, jp, ab) == IF ab /\ r # "cancelling" THEN "raised" ELSE "returned"

\* how TaskGroup.__aexit__ ends: with the ExceptionGroup of the tasks'
\* errors if there are any, else with the CancelledError of a cancelled
\* runner, else normally
left_as(r, jp, ab) ==
    IF \E i \in Jobs : jp[i] = "raised" THEN "raised"
    ELSE IF r = "cancelling" THEN "cancelled"
    ELSE IF ab THEN "raised"
    ELSE "returned"

\* _termination_signal_handler cancels every task: the runner, in its sleep
\* or in the TaskGroup's wait, and the tasks of the jobs
Terminate ==
    /\ runner \in {"spawning", "joining"}
    /\ ~aborting
    /\ aborting' = TRUE
    /\ runner' = "cancelling"
    /\ sem_waiters' = SelectSeq(sem_waiters, LAMBDA x : x \in woken)
    /\ UNCHANGED <<kind, tasks, jpc, stage, attempt, data, page, sem_value, woken,
                   results, total, started, completed, open_pages, outcome, outOfOrder,
                   exhausted, concurrency_limit, sinceAdmit>>
    /\ UNCHANGED cacheVars
    /\ UNCHANGED <<request, filename>>

\* every task is done: the TaskGroup is left, with the results or with the
\* ExceptionGroup of the errors
Join ==
    /\ runner \in {"joining", "cancelling"}
    /\ all_done(jpc)
    /\ (\E i \in Jobs : jpc[i] = "raised") => aborting
    /\ runner' = left_as(runner, jpc, aborting)
    /\ IF runner' = "returned"
       THEN /\ results' = gather(tasks, data)
            /\ open_pages' = 0
       ELSE /\ UNCHANGED <<results, open_pages>>
    /\ UNCHANGED <<kind, tasks, jpc, stage, attempt, data, page, sem_value,
                   sem_waiters, woken, aborting, total, started, completed, outcome,
                   outOfOrder, exhausted,
                   concurrency_limit, sinceAdmit>>
    /\ UNCHANGED cacheVars
    /\ UNCHANGED <<request, filename>>

NextRunner ==
    \/ \E k \in Kinds : RunnerCalled(k)
    \/ Start
    \/ Spawn
    \/ EndSpawn
    \/ \E i \in Jobs : Begin(i)
    \/ \E i \in Jobs : WakeUp(i)
    \/ \E i \in Jobs, b \in BOOLEAN : OpOk(i, b)
    \/ \E i \in Jobs : OpRetry(i)
    \/ \E i \in Jobs, cls \in {"recognized", "unrecognized"} : OpFail(i, cls)
    \/ Abort
    \/ \E i \in Jobs : Cancelled(i)
    \/ Join

\* ======================================================= one request
\* exceptions, as class and status
NoExc == [type |-> "none", status |-> 0]

Exceptions ==
    {[type |-> "ClientResponseError", status |-> st] :
         st \in {400, 404, 405, 499, 500, 503}}
    \cup {[type |-> t, status |-> 0] :
             t \in {"ClientConnectorCertificateError", "ClientConnectorError",
                    "ServerTimeoutError", "TimeoutError", "ValueError"}}

\* the statuses of the responses of a server
ResponseStatuses == {200, 404, 405, 503}

\* the classes an exception of class t is an instance of
Bases(t) ==
    CASE t = "ClientResponseError" -> {"ClientResponseError", "ClientError"}
      [] t = "ClientConnectorCertificateError" ->
             {"ClientConnectorCertificateError", "ClientSSLError",
              "ClientConnectorError", "ClientOSError", "ClientConnectionError",
              "ClientError", "OSError", "ValueError"}
      [] t = "ClientConnectorError" ->
             {"ClientConnectorError", "ClientOSError", "ClientConnectionError",
              "ClientError", "OSError"}
      [] t = "ServerTimeoutError" ->
             {"ServerTimeoutError", "ServerConnectionError", "ClientConnectionError",
              "ClientError", "TimeoutError", "OSError"}
      [] t = "TimeoutError" -> {"TimeoutError", "OSError"}
      [] OTHER -> {t}

isinstance(exc, classes) == Bases(exc.type) \cap classes # {}

\* faulty variant: every client error and timeout is retried
error_to_retry_all(exc) == isinstance(exc, {"ClientError", "TimeoutError"})

\* _error_to_retry
error_to_retry(exc) ==
    IF isinstance(exc, {"ClientResponseError"}) THEN exc.status >= 500
    ELSE IF isinstance(exc, {"ClientConnectorCertificateError"}) THEN FALSE
    ELSE isinstance(exc, {"ClientError", "TimeoutError"})

\* the except clauses of _resolve_url and _request
caught(exc) == isinstance(exc, {"ClientError", "TimeoutError"})

\* the jitter stamina draws, in whole seconds
Jitters == 0..WaitJitter

min(a, b) == IF a <= b THEN a ELSE b

\* the backoff stamina computes after the failure of call number num
backoff(num, jitter) == min(WaitMax, WaitInitial * 2^(num - 1) + jitter)

\* faulty variant: an error that leaves the retry wrapper wrapped in another
reraise_wrapped(exc) == [type |-> "RetryError", status |-> 0]

\* stamina re-raises the exception that ends the retrying
reraise(exc) == exc

NoUrl == [start |-> "none", via |-> "none"]

\* faulty variant: http is tried first
schemes_reversed == <<"http", "https">>

\* for scheme in ("https", "http")
schemes == <<"https", "http">>

\* faulty variant: the error of a failed scheme is not kept
append_error_dropped(errs, entry) == errs

\* faulty variant: the error of a failed scheme is put first
append_error_front(errs, entry) == <<entry>> \o errs

\* url_resolution_errors.append({...})
append_error(errs, entry) == Append(errs, entry)

\* the keys of the dict _resolve_url returns: lines 94-95 and 102-103
result_keys(r) ==
    (IF r.final_url # NoUrl THEN {"final_url", "start_url"} ELSE {})
    \cup (IF r.url_resolution_errors # <<>> THEN {"url_resolution_errors"} ELSE {})

NoLast == [op |-> "none", exc |-> NoExc, calls |-> 0, slept |-> 0]

NoneClassified == [op |-> "none", arg |-> "none", call |-> 0, exc |-> NoExc, retry |-> FALSE]

RequestIdle ==
    request = [rpc |-> "idle", op |-> "none", scheme |-> "none", calls |-> 0,
               delays |-> <<>>, final_url |-> NoUrl, start_url |-> "none",
               url_resolution_errors |-> <<>>, keys |-> {}, error |-> NoExc,
               tried |-> <<>>, head_result |-> NoExc, gets |-> 0, last |-> NoLast,
               classified |-> NoneClassified, did |-> {}]

\* _request is entered and calls _resolve_url, which calls
\* _resolve_redirects for https: the HEAD request is sent
RequestCalled ==
    /\ request.rpc = "idle"
    /\ request' = [request EXCEPT !.rpc = "head", !.op = "_resolve_redirects",
                                  !.scheme = schemes[1], !.tried = <<schemes[1]>>,
                                  !.calls = 1, !.delays = <<>>]
    /\ UNCHANGED <<cacheVars, runnerVars, filename>>

\* _resolve_redirects returns the response.url of the request via; lines
\* 94-96 store it and leave the loop, and _request awaits the DNS lookup
Resolved(r, via) ==
    [r EXCEPT !.rpc = "dns",
              !.final_url = [start |-> r.scheme, via |-> via],
              !.start_url = r.scheme,
              !.last = [op |-> r.op, exc |-> NoExc, calls |-> r.calls,
                        slept |-> Len(r.delays)],
              !.did = @ \cup {"dns"}]

\* the wrapped function raises exc on call number calls. The retry wrapper
\* sleeps and calls again, or re-raises: late says that the timeout of the
\* wrapper has passed. The error that leaves the wrapper is caught by
\* _request (line 124), or by _resolve_url (line 97), which goes on to the
\* next scheme or returns, or by neither.
OpRaised(r, exc, late, jitter) ==
    LET retry == error_to_retry(exc)
        again == retry /\ may_retry("responses", r.calls) /\ ~late
        out   == reraise(exc)
        c     == [r EXCEPT !.classified = [op |-> r.op, arg |-> r.scheme,
                                           call |-> r.calls, exc |-> exc,
                                           retry |-> retry]]
        left  == [c EXCEPT !.last = [op |-> r.op, exc |-> out, calls |-> r.calls,
                                     slept |-> Len(r.delays)]]
        entry == [start_url |-> r.scheme, error |-> out]
        next  == schemes[Len(r.tried) + 1]
    IN  IF again
        THEN [c EXCEPT !.rpc = "backoff",
                       !.delays = Append(@, backoff(r.calls, jitter))]
        ELSE IF ~caught(out)
        THEN [left EXCEPT !.rpc = "raised", !.error = out]
        ELSE IF r.op = "_fetch_html"
        THEN [left EXCEPT !.rpc = "returned", !.keys = @ \cup {"html_fetch_error"}]
        ELSE IF Len(r.tried) < Len(schemes)
        THEN [left EXCEPT !.url_resolution_errors = append_error(@, entry),
                          !.scheme = next, !.tried = Append(@, next),
                          !.calls = 1, !.delays = <<>>, !.rpc = "head",
                          !.head_result = NoExc, !.gets = 0]
        ELSE [left EXCEPT !.url_resolution_errors = append_error(@, entry),
                          !.rpc = "returned"]

\* session.head returns a response: the session does not raise for a
\* status (gather_responses makes it without raise_for_status), so line 75
\* returns the response.url whatever the status st
HeadReturns(st) ==
    /\ request.rpc = "head"
    /\ request' = Resolved([request EXCEPT
                               !.head_result = [type |-> "response", status |-> st]],
                           "HEAD")
    /\ UNCHANGED <<cacheVars, runnerVars, filename>>

\* session.head raises exc: lines 76-84 send the ranged GET for a
\* ClientResponseError of status 405 and re-raise every other
\* ClientResponseError; another exception is not caught at all
HeadRaises(exc, late, jitter) ==
    /\ request.rpc = "head"
    /\ request' =
           IF isinstance(exc, {"ClientResponseError"}) /\ exc.status = 405
           THEN [request EXCEPT !.rpc = "get", !.gets = @ + 1, !.head_result = exc]
           ELSE OpRaised([request EXCEPT !.head_result = exc], exc, late, jitter)
    /\ UNCHANGED <<cacheVars, runnerVars, filename>>

\* the ranged GET returns a response: line 82
GetReturns ==
    /\ request.rpc = "get"
    /\ request' = Resolved(request, "GET")
    /\ UNCHANGED <<cacheVars, runnerVars, filename>>

\* the ranged GET raises exc, which leaves _resolve_redirects
GetRaises(exc, late, jitter) ==
    /\ request.rpc = "get"
    /\ request' = OpRaised(request, exc, late, jitter)
    /\ UNCHANGED <<cacheVars, runnerVars, filename>>

\* the sleep of the retry wrapper is over: the wrapped function is called
\* again
BackoffOver ==
    /\ request.rpc = "backoff"
    /\ request' =
           IF request.op = "_resolve_redirects"
           THEN [request EXCEPT !.calls = @ + 1, !.rpc = "head",
                                !.head_result = NoExc, !.gets = 0]
           ELSE [request EXCEPT !.calls = @ + 1, !.rpc = "fetch"]
    /\ UNCHANGED <<cacheVars, runnerVars, filename>>

\* resolve_ip_addresses returns; external: none of the addresses is one of
\* opiferum's. Lines 117-123: an external site is returned as it is, for
\* another _fetch_html is called
DnsReturns(external) ==
    /\ request.rpc = "dns"
    /\ LET r == [request EXCEPT
                    !.keys = @ \cup {"ip_addresses", "external_to_opiferum"}]
       IN  request' =
               IF external
               THEN [r EXCEPT !.rpc = "returned"]
               ELSE [r EXCEPT !.rpc = "fetch", !.op = "_fetch_html", !.calls = 1,
                              !.delays = <<>>, !.did = @ \cup {"fetch"}]
    /\ UNCHANGED <<cacheVars, runnerVars, filename>>

\* getaddrinfo raises socket.gaierror, which nothing catches
DnsRaises ==
    /\ request.rpc = "dns"
    /\ request' = [request EXCEPT !.rpc = "raised",
                                  !.error = [type |-> "gaierror", status |-> 0]]
    /\ UNCHANGED <<cacheVars, runnerVars, filename>>

\* session.get returns and the text is read: lines 56-58 and 123
FetchReturns ==
    /\ request.rpc = "fetch"
    /\ request' = [request EXCEPT
                      !.rpc = "returned",
                      !.keys = @ \cup {"html"},
                      !.last = [op |-> request.op, exc |-> NoExc,
                                calls |-> request.calls,
                                slept |-> Len(request.delays)]]
    /\ UNCHANGED <<cacheVars, runnerVars, filename>>

\* session.get or response.text raises exc
FetchRaises(exc, late, jitter) ==
    /\ request.rpc = "fetch"
    /\ request' = OpRaised(request, exc, late, jitter)
    /\ UNCHANGED <<cacheVars, runnerVars, filename>>

NextRequest ==
    \/ RequestCalled
    \/ \E st \in ResponseStatuses : HeadReturns(st)
    \/ \E exc \in Exceptions, late \in BOOLEAN, jitter \in Jitters :
           HeadRaises(exc, late, jitter)
    \/ GetReturns
    \/ \E exc \in Exceptions, late \in BOOLEAN, jitter \in Jitters :
           GetRaises(exc, late, jitter)
    \/ BackoffOver
    \/ \E external \in BOOLEAN : DnsReturns(external)
    \/ DnsRaises
    \/ FetchReturns
    \/ \E exc \in Exceptions, late \in BOOLEAN, jitter \in Jitters :
           FetchRaises(exc, late, jitter)

\* ================================================ filename_safe_encode
FilenameMax == 255

\* the number of bytes of code point cp in UTF-8
utf8_len(cp) ==
    IF cp < 128 THEN 1 ELSE IF cp < 2048 THEN 2 ELSE IF cp < 65536 THEN 3 ELSE 4

\* the bytes of code point cp in UTF-8
utf8(cp) ==
    IF cp < 128 THEN <<cp>>
    ELSE IF cp < 2048 THEN <<192 + (cp \div 64), 128 + (cp % 64)>>
    ELSE IF cp < 65536
    THEN <<224 + (cp \div 4096), 128 + ((cp \div 64) % 64), 128 + (cp % 64)>>
    ELSE <<240 + (cp \div 262144), 128 + ((cp \div 4096) % 64),
           128 + ((cp \div 64) % 64), 128 + (cp % 64)>>

\* str.encode("utf-8")
RECURSIVE encode(_)
encode(str) ==
    IF str = <<>> THEN <<>>
    ELSE IF Len(str) = 1 THEN utf8(str[1])
    ELSE LET half == Len(str) \div 2
         IN  encode(SubSeq(str, 1, half)) \o encode(SubSeq(str, half + 1, Len(str)))

\* len(str.encode("utf-8"))
RECURSIVE bytes_len(_)
bytes_len(str) ==
    IF str = <<>> THEN 0
    ELSE IF Len(str) = 1 THEN utf8_len(str[1])
    ELSE LET half == Len(str) \div 2
         IN  bytes_len(SubSeq(str, 1, half)) + bytes_len(SubSeq(str, half + 1, Len(str)))

\* the URL-safe base64 alphabet: A-Z a-z 0-9 - _
b64char(n) ==
    IF n < 26 THEN 65 + n
    ELSE IF n < 52 THEN 97 + (n - 26)
    ELSE IF n < 62 THEN 48 + (n - 52)
    ELSE IF n = 62 THEN 45 ELSE 95

Pad == 61

\* three bytes make four characters; a last group of one or two bytes is
\* padded with "=". The groups are independent of each other: they are
\* encoded by halves
RECURSIVE urlsafe_b64encode(_)
urlsafe_b64encode(bs) ==
    IF bs = <<>> THEN <<>>
    ELSE IF Len(bs) = 1
    THEN <<b64char(bs[1] \div 4), b64char((bs[1] % 4) * 16), Pad, Pad>>
    ELSE IF Len(bs) = 2
    THEN <<b64char(bs[1] \div 4), b64char((bs[1] % 4) * 16 + (bs[2] \div 16)),
           b64char((bs[2] % 16) * 4), Pad>>
    ELSE IF Len(bs) = 3
    THEN <<b64char(bs[1] \div 4), b64char((bs[1] % 4) * 16 + (bs[2] \div 16)),
           b64char((bs[2] % 16) * 4 + (bs[3] \div 64)), b64char(bs[3] % 64)>>
    ELSE LET groups == (Len(bs) + 2) \div 3
             first == 3 * (groups \div 2)
         IN  urlsafe_b64encode(SubSeq(bs, 1, first))
                 \o urlsafe_b64encode(SubSeq(bs, first + 1, Len(bs)))

\* faulty variant: the encoded text is not cut
slice_whole(str, stop) == str

\* str[:stop]: a negative stop counts from the end
slice(str, stop) ==
    IF stop >= 0
    THEN SubSeq(str, 1, min(stop, Len(str)))
    ELSE SubSeq(str, 1, IF Len(str) + stop > 0 THEN Len(str) + stop ELSE 0)

\* the bytes of the encoded text are ASCII, so decode("utf-8") gives one
\* character for each; a prefix or postfix of None is the empty string
filename_safe_encode(text, limit_length, prefix, postfix) ==
    LET encoded_text == urlsafe_b64encode(encode(text))
    IN  IF limit_length
        THEN LET limit == FilenameMax - bytes_len(prefix) - bytes_len(postfix)
             IN  prefix \o slice(encoded_text, limit) \o postfix
        ELSE encoded_text

\* n times the character cp
Repeat(cp, n) == [i \in 1..n |-> cp]

\* characters of one to four bytes: a, e acute, the euro sign, an emoji
Chars == {97, 233, 8364, 128512}

Texts == {Repeat(cp, n) : cp \in Chars, n \in {0, 1, 2, 3, 64, 200}}

Prefixes == {Repeat(cp, n) : cp \in {97, 8364}, n \in {0, 1, 50, 85}}

Postfixes == {Repeat(cp, n) : cp \in {97, 233}, n \in {0, 1, 100}}

FilenameIdle ==
    filename = [pc |-> "idle", text |-> <<>>, limit_length |-> FALSE,
                prefix |-> <<>>, postfix |-> <<>>, out |-> <<>>]

\* filename_safe_encode(text, limit_length, prefix, postfix) is called
FilenameCalled ==
    \E text \in Texts, limit_length \in BOOLEAN,
       prefix \in Prefixes, postfix \in Postfixes :
        filename = [pc |-> "called", text |-> text, limit_length |-> limit_length,
                    prefix |-> prefix, postfix |-> postfix, out |-> <<>>]

\* the call returns
Encode ==
    /\ filename.pc = "called"
    /\ filename' = [filename EXCEPT
                        !.pc = "returned",
                        !.out = filename_safe_encode(filename.text,
                                                     filename.limit_length,
                                                     filename.prefix,
                                                     filename.postfix)]
    /\ UNCHANGED <<cacheVars, runnerVars, request>>

InitEncode ==
    /\ CacheIdle
    /\ RunnerIdle
    /\ RequestIdle
    /\ FilenameCalled

NextEncode ==
    \/ Encode

SpecEncode == InitEncode /\ [][NextEncode]_vars

InitRequest ==
    /\ CacheIdle
    /\ RunnerIdle
    /\ RequestIdle
    /\ FilenameIdle

SpecRequest == InitRequest /\ [][NextRequest]_vars

\* the runners are studied with the memoisation left out of the calls
InitRunner ==
    /\ CacheIdle
    /\ RunnerIdle
    /\ RequestIdle
    /\ FilenameIdle

SpecRunner == InitRunner /\ [][NextRunner]_vars

\* a cache without ttl whose callers may be cancelled
InitCancel ==
    /\ \E ms \in {None, MaxSize} : CacheMade(ms, None)
    /\ RunnerIdle
    /\ RequestIdle
    /\ FilenameIdle

NextCancel ==
    \/ \E c \in Callers, k \in Keys : Call(c, k)
    \/ \E c \in Callers : Resume(c)
    \/ \E c \in Callers : FuncReturn(c)
    \/ \E c \in Callers : FuncRaise(c)
    \/ \E c \in Callers : CancelCaller(c)

SpecCancel == InitCancel /\ [][NextCancel]_vars

\* the runners under a termination signal
NextTerminate ==
    \/ \E k \in Kinds : RunnerCalled(k)
    \/ Start
    \/ Spawn
    \/ EndSpawn
    \/ \E i \in Jobs : Begin(i)
    \/ \E i \in Jobs : WakeUp(i)
    \/ \E i \in Jobs, b \in BOOLEAN : OpOk(i, b)
    \/ \E i \in Jobs : OpRetry(i)
    \/ \E i \in Jobs, cls \in {"recognized", "unrecognized"} : OpFail(i, cls)
    \/ Abort
    \/ Terminate
    \/ \E i \in Jobs : Cancelled(i)
    \/ Join

SpecTerminate == InitRunner /\ [][NextTerminate]_vars

\* a runner with fewer slots, so that two consecutive jobs wait for a slot
InitNarrow ==
    /\ CacheIdle
    /\ RunnerWith(ConcurrencyLimit - 1)
    /\ RequestIdle
    /\ FilenameIdle

SpecNarrow == InitNarrow /\ [][NextRunner]_vars

\* the decorator is studied by itself, under callers of the wrapped function
Init ==
    /\ InitCache
    /\ RunnerIdle
    /\ RequestIdle
    /\ FilenameIdle

SpecCache == Init /\ [][NextCache]_vars

\* a ttl of two units of time, so that an entry can be hit less than ttl
\* before the sweep that finds it older than ttl
InitLongTTL ==
    /\ CacheMade(None, TTL + TTL)
    /\ RunnerIdle
    /\ RequestIdle
    /\ FilenameIdle

SpecLongTTL == InitLongTTL /\ [][NextCache]_vars

\* a cache with ttl and autoclean that is closed, once or twice, at any time
InitClose ==
    /\ CacheMade(None, TTL)
    /\ RunnerIdle
    /\ RequestIdle
    /\ FilenameIdle

NextClose ==
    \/ \E c \in Callers, k \in Keys : Call(c, k)
    \/ \E c \in Callers : Resume(c)
    \/ \E c \in Callers : FuncReturn(c)
    \/ \E c \in Callers : FuncRaise(c)
    \/ Sweep
    \/ Tick
    \/ Close
    \/ CleanupExit
    \/ \E c \in Callers : UseAfterClose(c)

SpecClose == InitClose /\ [][NextClose]_vars

\* ------------------------------------- the retry wrapper over the cache
\* _fetch_html and _resolve_redirects: stamina.retry is the outer decorator
\* and CoalescingCache the inner one, so every attempt of the retry wrapper
\* is a call of the cache's wrapper.
\* func raises an error the retry wrapper retries on, and attempts remain:
\* the exception leaves wrapper through the async with, which releases the
\* lock, and the retry wrapper sleeps before its next attempt
AttemptRaise(c) ==
    /\ pc[c] = "computing"
    /\ may_retry("responses", tries[c] + 1)
    /\ tries' = [tries EXCEPT ![c] = @ + 1]
    /\ pc' = [pc EXCEPT ![c] = "backoff"]
    /\ lockOf' = [lockOf EXCEPT ![c] = 0]
    /\ locks' = Collect(release(locks, lockOf[c]), lock_map, lockOf')
    /\ cache' = raised(cache, key[c], c, now)
    /\ UNCHANGED <<max_size, ttl, lock_map, key, result, now, wakeAt,
                   accessOrder, lastAccess, joined>>
    /\ UNCHANGED <<closed, close_raised, cleanup_task>>
    /\ UNCHANGED runnerVars
    /\ UNCHANGED <<request, filename>>

\* the sleep is over: the retry wrapper calls wrapper again with the same
\* arguments
Reattempt(c) ==
    /\ pc[c] = "backoff"
    /\ Invoke(c, key[c])

\* callers of a cached function under the retry wrapper; the cache of
\* async_requests.py is made without max_size and ttl
InitRetry ==
    /\ CacheMade(None, None)
    /\ RunnerIdle
    /\ RequestIdle
    /\ FilenameIdle

\* the callers ask for one URL
RetryKeys == {1}

NextRetry ==
    \/ \E c \in Callers, k \in RetryKeys : Call(c, k)
    \/ \E c \in Callers : Resume(c)
    \/ \E c \in Callers : FuncReturn(c)
    \/ \E c \in Callers : FuncRaise(c)
    \/ \E c \in Callers : AttemptRaise(c)
    \/ \E c \in Callers : Reattempt(c)

SpecRetry == InitRetry /\ [][NextRetry]_vars

\* --------------------------------------------- callers that make progress
\* a cache whose locks leave the lock table by evictions and by sweeps
InitLive ==
    /\ CacheMade(MaxSize, TTL)
    /\ RunnerIdle
    /\ RequestIdle
    /\ FilenameIdle

\* the keys the callers ask for: an expired key is a miss that evicts
LiveKeys == {1, 2}

\* time passes, for as long as it takes an entry to expire and be swept
Elapse ==
    /\ now < ttl + ttl
    /\ Tick

NextLive ==
    \/ \E c \in Callers, k \in LiveKeys : Call(c, k)
    \/ \E c \in Callers : Resume(c)
    \/ \E c \in Callers : FuncReturn(c)
    \/ \E c \in Callers : FuncRaise(c)
    \/ Sweep
    \/ Elapse

\* the event loop runs a task whose future has a result, and every
\* invocation of the wrapped function returns or raises
Fairness ==
    \A c \in Callers :
        /\ WF_vars(Resume(c))
        /\ WF_vars(FuncReturn(c) \/ FuncRaise(c))

SpecLive == InitLive /\ [][NextLive]_vars /\ Fairness

\* ------------------------------------------------------ cache claims
Computing(k) == {c \in Callers : pc[c] = "computing" /\ key[c] = k}

\* C1: at any time at most one invocation of the wrapped function is in
\* flight for a given key.
C1_OneInFlightPerKey == \A k \in Keys : Cardinality(Computing(k)) <= 1

\* caller c invoked the wrapped function and it has not raised
Invoked(c) == pc[c] = "computing" \/ (pc[c] = "done" /\ result[c] = c)

\* C2: callers of one key that are in flight together while no valid entry
\* is cached share one invocation of the wrapped function: no two of them
\* invoke it, and all return the same value.
C2_Coalescing ==
    \A c, d \in Callers :
        (c # d /\ {c, d} \in joined) =>
            /\ ~(Invoked(c) /\ Invoked(d))
            /\ (pc[c] = "done" /\ pc[d] = "done") => result[c] = result[d]

\* C3: with max_size set, the cache never holds more than max_size entries.
C3_SizeBound == max_size # None => Len(cache) <= max_size

\* C9: the entry a computation for a new key evicts is the least recently
\* accessed one (last insertion or hit the oldest).
C9_EvictsLeastRecentlyUsed ==
    [][\A k \in Keys :
          (k \in CacheKeys(cache) /\ k \notin CacheKeys(cache') /\ wakeAt' = wakeAt)
              => k = Head(accessOrder)]_vars

\* C10: a sweep of the background expiry task removes every cached key
\* whose last access (insertion or hit) is more than ttl ago, and the
\* key's lock with it. A step that moves wakeAt is a sweep.
C10_SweepRemovesIdleKeys ==
    [][(wakeAt' # wakeAt) =>
          \A k \in CacheKeys(cache) :
              now > lastAccess[k] + ttl =>
                  (k \notin CacheKeys(cache') /\ k \notin DOMAIN lock_map')]_vars

\* No size limit, so only a sweep removes entries: caller c stored its key,
\* and the key and its lock are gone.
C10_Witness ==
    /\ ttl # None
    /\ max_size = None
    /\ \E c \in Callers :
           /\ pc[c] = "done"
           /\ result[c] = c
           /\ InFlight(key[c]) = {}
           /\ key[c] \notin CacheKeys(cache)
           /\ key[c] \notin DOMAIN lock_map

\* ----------------------------------------------------- runner claims
Executing == {i \in Jobs : jpc[i] = "running"}

\* C4: in each runner the number of jobs executing their operation (between
\* taking and giving back the semaphore) is at most concurrency_limit.
C4_ConcurrencyBound == Cardinality(Executing) <= ConcurrencyLimit

\* the limit is reached while a later job waits for a slot
C4_Witness ==
    /\ Cardinality(Executing) = ConcurrencyLimit
    /\ \E i \in Jobs : jpc[i] = "queued"

\* C5: the list a runner returns has the result of job i at index i.
C5_ResultOrder ==
    runner = "returned" =>
        /\ Len(results) = NumJobs
        /\ \A n \in 1..Len(results) : results[n].identifier = n

\* a runner has returned although a job settled before an earlier one
C5_Witness == runner = "returned" /\ outOfOrder

\* what makes a job's result a failure: no resolved URL or no HTML for a
\* request, no extracts for an extraction, an error for a screenshot
IsFailure(k, fields) ==
    CASE k = "responses" -> "final_url" \notin fields \/ "html_fetch_error" \in fields
      [] k = "extracts" -> "ai_extracts" \notin fields
      [] OTHER -> "screenshot_error" \in fields

Failed == {i \in Jobs : outcome[i] \in {"failure", "invalid"}}

\* C6: a recognized error of a job's operation becomes the job's result and
\* never leaves its task; a runner whose jobs ended in successes and
\* recognized failures returns NumJobs results, a failure for each failed
\* job and a success for each other; the runner raises only for a defect.
C6_PartialFailure ==
    /\ \A i \in Failed : jpc[i] = "done"
    /\ runner = "raised" => \E i \in Jobs : outcome[i] = "defect"
    /\ runner = "returned" =>
           /\ Len(results) = NumJobs
           /\ \A i \in Jobs :
                  /\ outcome[i] \in {"success", "failure", "invalid"}
                  /\ (i \in Failed) <=> IsFailure(kind, results[i].fields)

\* one job failed on the last attempt of its budget, the others succeeded,
\* and the runner returned
C6_Witness ==
    /\ runner = "returned"
    /\ exhausted
    /\ Cardinality(Failed) = 1
    /\ \A i \in Jobs \ Failed : outcome[i] = "success"

\* C7: an error outside the recognized set never becomes a result: its
\* task raises, the runner does not return and has no result list, and
\* when the runner raises no job is left in flight.
C7_DefectPropagates ==
    /\ \A i \in Jobs :
           outcome[i] = "defect" =>
               /\ jpc[i] = "raised"
               /\ runner # "returned"
               /\ results = <<>>
    /\ runner = "raised" => \A j \in Jobs : jpc[j] \notin Unsettled

\* the runner raised for a defect and a job in flight was cancelled
C7_Witness ==
    /\ runner = "raised"
    /\ \E i \in Jobs : outcome[i] = "defect"
    /\ \E j \in Jobs : jpc[j] = "cancelled"

\* the keys that record a failure in a result
HasFailureMarker(fields) ==
    \/ "html_fetch_error" \in fields
    \/ "screenshot_error" \in fields
    \/ ("url_resolution_errors" \in fields /\ "final_url" \notin fields)

\* C8: in the list a runner returns, the result of a job that failed with a
\* recognized error carries a failure marker and the result of a successful
\* job carries none.
C8_FailureMarked ==
    runner = "returned" =>
        \A i \in Jobs :
            /\ i \in Failed => HasFailureMarker(results[i].fields)
            /\ outcome[i] = "success" => ~HasFailureMarker(results[i].fields)

\* C11: a sweep leaves in the cache, and leaves its lock in the table, every
\* key that was accessed (inserted or hit) less than ttl ago, however old
\* its entry is.
C11_HitRefreshes ==
    [][(wakeAt' # wakeAt) =>
          \A k \in CacheKeys(cache) \cap DOMAIN lock_map :
              now < lastAccess[k] + ttl =>
                  (k \in CacheKeys(cache') /\ k \in DOMAIN lock_map')]_vars

\* C12: close() never raises, not when it is called after a close().
C12_CloseTwice == ~close_raised

\* C13: after close() the cleanup task is cancelled: it removes nothing
\* and starts no new sleep, and the one step it takes is its return.
C13_CleanupCancelled ==
    [][closed' =>
          /\ cleanup_task' \in {"cancelling", "finished"}
          /\ closed => (cache' = cache /\ wakeAt' = wakeAt)]_vars

\* the cache was closed after a value had been stored, and the task has
\* returned
C13_Witness ==
    /\ closed
    /\ cleanup_task = "finished"
    /\ \E c \in Callers : pc[c] = "done"

\* job i starts its operation in this step
Admitted(i) == jpc[i] # "running" /\ jpc'[i] = "running"

\* C14: when a job is admitted, a whole sleep of 1/tasks_per_second has
\* passed since the admission of the job before it.
C14_AdmissionSpacing ==
    [][\A i \in Jobs : Admitted(i) => sinceAdmit \in {"none", "slept"}]_vars

\* C15: when a runner returns its list every job has been spawned and has
\* settled: none waits for a slot or executes its operation.
C15_ReturnsAfterSettled ==
    runner = "returned" =>
        /\ Len(tasks) = NumJobs
        /\ \A i \in Jobs : jpc[i] \notin Unsettled \cup {"new"}

\* the runner has returned, every job is done and every slot is back
C15_Witness ==
    /\ runner = "returned"
    /\ \A i \in Jobs : jpc[i] = "done"
    /\ sem_value = concurrency_limit

Holders(id) == {c \in Callers : pc[c] = "computing" /\ lockOf[c] = id}

\* C17: a caller cancelled in func or in the wait for the lock holds no lock
\* and queues on none, and no item of the cache is its: every held lock is
\* held by a caller that is in func.
C17_CancelledLeavesNothing ==
    /\ \A c \in Callers : pc[c] = "cancelled" =>
           /\ lockOf[c] = 0
           /\ \A id \in DOMAIN locks :
                  \A n \in 1..Len(locks[id].waiters) : locks[id].waiters[n] # c
           /\ \A n \in 1..Len(cache) : cache[n].value # c
    /\ \A id \in DOMAIN locks : locks[id].locked => Holders(id) # {}

\* the first caller was cancelled in func, the next caller of its key took
\* the lock and is in func, and of the two callers queued behind it the
\* first was cancelled
C17_Witness ==
    /\ pc[1] = "cancelled"
    /\ \E c, d, e \in Callers :
           /\ 1 < c /\ c < d /\ d < e
           /\ key[c] = key[1] /\ key[d] = key[1] /\ key[e] = key[1]
           /\ pc[c] = "computing" /\ {1, c} \in joined
           /\ pc[d] = "cancelled" /\ {c, d} \in joined
           /\ pc[e] = "waiting" /\ Woken(e) = FALSE

\* C18: a caller whose func raised got the exception and no value, holds no
\* lock and has no item in the cache; the items and the values handed out
\* are those of calls of func that returned, so a caller after the failure,
\* queued or new, calls func itself unless a call that returned serves it.
C18_FailureNotCached ==
    /\ \A c \in Callers : pc[c] = "failed" =>
           /\ result[c] = 0
           /\ lockOf[c] = 0
           /\ \A n \in 1..Len(cache) : cache[n].value # c
    /\ \A n \in 1..Len(cache) : pc[cache[n].value] = "done"
    /\ \A d \in Callers : pc[d] = "done" =>
           /\ pc[result[d]] = "done"
           /\ result[result[d]] = result[d]
    /\ \A id \in DOMAIN locks : locks[id].locked =>
           \E c \in Callers : pc[c] = "computing" /\ lockOf[c] = id

\* func raised for a caller; the caller queued behind it called func again
\* and got its value, and so did a later caller of the key, from the cache
C18_Witness ==
    \E c, d, e \in Callers :
        /\ c < d /\ d < e
        /\ pc[c] = "failed" /\ {c, d} \in joined /\ {c, e} \notin joined
        /\ key[d] = key[c] /\ key[e] = key[c]
        /\ pc[d] = "done" /\ result[d] = d
        /\ pc[e] = "done" /\ result[e] = d

\* C19: the runner returns with the primary counter at the total: every
\* settled job advanced it once.
C19_CompletedPerJob == runner = "returned" => completed = total

Admissions == {i \in Jobs : jpc[i] \in {"running", "done", "raised"}}

\* C20: while no task is cancelled, the secondary counter is the number of
\* jobs admitted so far, however often their operations were retried.
C20_StartedPerJob == ~aborting => started = Cardinality(Admissions)

\* C21: when the runner has returned, no job has added a key to the input
\* value the caller passed for it.
C21_InputsUnchanged == runner = "returned" => \A i \in Jobs : page[i] = {}

\* ---------------------------------------------------- request claims
\* the kinds of error the classification is stated for
HttpResponseError(e) == e.type = "ClientResponseError"

CertificateFailure(e) == e.type = "ClientConnectorCertificateError"

ConnectionError(e) ==
    e.type \in {"ClientConnectorError", "ClientConnectorCertificateError",
                "ServerTimeoutError"}

Timeout(e) == e.type \in {"TimeoutError", "ServerTimeoutError"}

Retryable(e) ==
    \/ HttpResponseError(e) /\ e.status >= 500
    \/ ConnectionError(e) /\ ~CertificateFailure(e)
    \/ Timeout(e)

\* C22: _error_to_retry answers retryable exactly for a response error of
\* status 500 or more, a connection error that is no certificate failure,
\* and a timeout; not retryable for a response error of a lower status, a
\* certificate failure and any other exception.
C22_Classification ==
    request.classified.exc # NoExc =>
        request.classified.retry = Retryable(request.classified.exc)

\* a call failed and was retried, and the next call failed with a
\* certificate failure, classified as not retryable
C22_Witness ==
    /\ CertificateFailure(request.classified.exc)
    /\ ~request.classified.retry
    /\ request.classified.call = 2

\* a wrapped call has just failed
CallFailed == request.classified' # request.classified

\* C23: when a wrapped call fails with an error that is not retryable, the
\* wrapper computes no delay and makes no further call: it is left at once
\* by that same error, which reaches the caller of the wrapper, and if the
\* call was the first, the function has been called exactly once.
C23_NotRetried ==
    [][LET exc == request.classified'.exc
       IN  (CallFailed /\ ~Retryable(exc)) =>
               /\ request.rpc' # "backoff"
               /\ request.delays' \in {request.delays, <<>>}
               /\ request.last' = [op |-> request.op, exc |-> exc,
                                   calls |-> request.calls,
                                   slept |-> request.calls - 1]
               /\ request.classified'.call = 1 =>
                      (request.last'.calls = 1 /\ request.last'.slept = 0)
               /\ IF ~caught(exc) THEN request.error' = exc
                  ELSE IF request.op = "_fetch_html"
                  THEN "html_fetch_error" \in request.keys'
                  ELSE request.url_resolution_errors'[
                           Len(request.url_resolution_errors')].error = exc]_vars

\* _fetch_html failed with a response error of status 404 on its first
\* call: one call, no sleep, and the error is in the data of the job
C23_Witness ==
    /\ request.rpc = "returned"
    /\ request.last = [op |-> "_fetch_html",
                       exc |-> [type |-> "ClientResponseError", status |-> 404],
                       calls |-> 1, slept |-> 0]
    /\ "html_fetch_error" \in request.keys

\* C24: a retry wrapper never calls its function more often than its limit
\* of attempts: 4 times for a fetch, a redirect resolution or a capture, 6
\* times for a completion; a failure of the last attempt ends the retrying.
C24_AttemptsBounded ==
    /\ \A i \in Jobs : attempt[i] <= AttemptsMax(kind)
    /\ AttemptsMax("responses") = 4
    /\ AttemptsMax("screenshots") = 4
    /\ AttemptsMax("extracts") = 6

\* a completion failed on each of its six attempts and the job is settled
\* as a failure, while another job is at its last attempt
C24_Witness ==
    /\ kind = "extracts"
    /\ exhausted
    /\ \E i, j \in Jobs :
           /\ jpc[i] = "done" /\ outcome[i] = "failure"
           /\ jpc[j] = "running" /\ attempt[j] = ExtractAttempts

\* C25: the delays a retry wrapper of the fetch computes one after the
\* other do not decrease as long as the cap is not reached, whatever the
\* jitter.
C25_BackoffMonotone ==
    \A n \in 1..(Len(request.delays) - 1) :
        request.delays[n] < WaitMax => request.delays[n] <= request.delays[n + 1]

\* _resolve_url has returned with a final URL found for http
HttpResolved == request.scheme = "http" /\ "dns" \in request.did

\* C26: when the resolution fails for https with a connection error and
\* succeeds for http, the result has the final URL and the start URL of the
\* http attempt and a list of exactly one error, that of the https attempt.
C26_SchemeFallback ==
    HttpResolved =>
        /\ request.final_url.start = "http"
        /\ request.start_url = "http"
        /\ result_keys(request) = {"final_url", "start_url", "url_resolution_errors"}
        /\ Len(request.url_resolution_errors) = 1
        /\ request.url_resolution_errors[1].start_url = "https"
        /\ caught(request.url_resolution_errors[1].error)

\* https failed with a connection error, http was resolved by its HEAD
C26_Witness ==
    /\ HttpResolved
    /\ request.url_resolution_errors =
           <<[start_url |-> "https",
              error |-> [type |-> "ClientConnectorError", status |-> 0]]>>
    /\ request.final_url = [start |-> "http", via |-> "HEAD"]

\* _resolve_url has returned after the resolution failed for both schemes
BothFailed ==
    /\ request.rpc = "returned"
    /\ request.scheme = "http"
    /\ request.last.op = "_resolve_redirects"
    /\ request.last.exc # NoExc

\* C27: when the resolution fails for both schemes, the result has no final
\* URL and a list of exactly two errors, that of https first and that of
\* http second, and the job awaits no DNS lookup and no fetch.
C27_AllSchemesFailed ==
    BothFailed =>
        /\ request.final_url = NoUrl
        /\ result_keys(request) = {"url_resolution_errors"}
        /\ Len(request.url_resolution_errors) = 2
        /\ request.url_resolution_errors[1].start_url = "https"
        /\ request.url_resolution_errors[2].start_url = "http"
        /\ request.url_resolution_errors[2].error = request.last.exc
        /\ request.did = {}
        /\ request.keys = {}

\* https failed with a certificate failure and http with a timeout after
\* all its attempts
C27_Witness ==
    /\ BothFailed
    /\ CertificateFailure(request.url_resolution_errors[1].error)
    /\ Timeout(request.url_resolution_errors[2].error)
    /\ request.last.calls = FetchAttempts

\* C28: https is tried first and http only after the attempt for https has
\* failed; when https succeeds, http is not tried and the result has no
\* list of errors.
C28_HttpsFirst ==
    /\ request.rpc # "idle" => request.tried[1] = "https"
    /\ Len(request.tried) > 1 =>
           /\ request.tried = <<"https", "http">>
           /\ request.url_resolution_errors # <<>>
           /\ request.url_resolution_errors[1].start_url = "https"
    /\ request.final_url.start = "https" =>
           /\ request.tried = <<"https">>
           /\ result_keys(request) = {"final_url", "start_url"}

\* https was resolved at its second call, and the job went on to the fetch
C28_Witness ==
    /\ request.final_url.start = "https"
    /\ request.rpc = "fetch"
    /\ request.classified.arg = "https"
    /\ request.classified.call = 1

\* C29: in a call of _resolve_redirects the ranged GET is sent if and only
\* if the HEAD ended with status 405, and the URL the call returns is then
\* that of the GET; a HEAD that ended otherwise is followed by no GET.
C29_MethodFallback ==
    /\ request.gets > 0 <=> request.head_result.status = 405
    /\ request.gets > 0 => request.final_url.via \in {"none", "GET"}

\* C30: the jobs that were spawned and are not settled are never more than
\* concurrency_limit: the runner takes a slot before it spawns a job.
C30_SpawnedBounded ==
    Cardinality({i \in Jobs : jpc[i] \in Unsettled}) <= concurrency_limit

\* ------------------------------------------- lock table and sweep claims
\* no call of the wrapped function is in flight or waiting
Quiescent == \A c \in Callers : pc[c] \notin {"waiting", "computing"}

\* C31: whenever no call is in flight or waiting, the keys that have a lock
\* in the lock table are exactly the keys in the cache.
C31_LocksMatchCache == Quiescent => DOMAIN lock_map = CacheKeys(cache)

\* the lock is held or has callers queued on it
InUse(id) == locks[id].locked \/ locks[id].waiters # <<>>

\* C32: a step that removes a key's lock from the lock table (an eviction
\* or a sweep) removes only a lock that is free: not held, nobody queued.
C32_DisposedWhenFree ==
    [][\A k \in DOMAIN lock_map :
          k \notin DOMAIN lock_map' => ~InUse(lock_map[k])]_vars

\* the cache's content for key k (its entry, or its absence) differs
Differs(ch, ch2, k) ==
    \/ (k \in CacheKeys(ch)) # (k \in CacheKeys(ch2))
    \/ k \in CacheKeys(ch) /\ k \in CacheKeys(ch2) /\ Entry(ch, k) # Entry(ch2, k)

\* C33: a step that changes the cache's content for key k (inserts k,
\* evicts k, expires k) is taken while a caller of k holds k's lock.
C33_MutationUnderLock ==
    [][\A k \in Keys :
          Differs(cache, cache', k) =>
              \E c \in Callers :
                  /\ key[c] = k
                  /\ pc[c] = "computing"
                  /\ locks[lockOf[c]].locked]_vars

\* C34: a sweep (a step that moves wakeAt) scans and removes in one step:
\* every entry it removes is expired at that moment, the entries it keeps
\* are as they were and in their order, and no caller moves during it.
C34_SweepAtomic ==
    [][(wakeAt' # wakeAt) =>
          /\ \A k \in CacheKeys(cache) \ CacheKeys(cache') :
                 now > Entry(cache, k).timestamp + ttl
          /\ cache' = Without(cache, CacheKeys(cache) \ CacheKeys(cache'))
          /\ now' = now
          /\ pc' = pc /\ key' = key /\ result' = result]_vars

\* No size limit: the sweep that has just run (wakeAt = now + ttl) removed
\* the entry caller c had stored and kept a younger one.
C34_Witness ==
    /\ ttl # None
    /\ max_size = None
    /\ now > 0
    /\ wakeAt = now + ttl
    /\ cache # <<>>
    /\ \E c \in Callers :
           /\ pc[c] = "done"
           /\ result[c] = c
           /\ key[c] \notin CacheKeys(cache)

\* C35: all attempts of a caller's computation for a key run under one
\* hold of the key's lock: while the caller is between two attempts, no
\* other caller of the key runs an attempt of its own.
C35_AttemptsUnderOneHold ==
    \A c, d \in Callers :
        (c # d /\ pc[c] = "backoff" /\ key[d] = key[c]) => pc[d] # "computing"

\* ------------------------------------------------------ filename claims
\* C36: for every text and every prefix and postfix whose UTF-8 lengths sum
\* to at most 255, filename_safe_encode(text, True, prefix, postfix) is at
\* most 255 bytes long in UTF-8, starts with prefix and ends with postfix.
C36_LengthLimited ==
    (/\ filename.pc = "returned"
     /\ filename.limit_length
     /\ bytes_len(filename.prefix) + bytes_len(filename.postfix) <= FilenameMax)
    => /\ bytes_len(filename.out) <= FilenameMax
       /\ Len(filename.out) >= Len(filename.prefix) + Len(filename.postfix)
       /\ SubSeq(filename.out, 1, Len(filename.prefix)) = filename.prefix
       /\ SubSeq(filename.out, Len(filename.out) - Len(filename.postfix) + 1,
                 Len(filename.out)) = filename.postfix

\* the encoded text was cut: prefix and postfix of several bytes a
\* character, and a result of exactly 255 bytes
C36_Witness ==
    /\ filename.pc = "returned"
    /\ filename.limit_length
    /\ bytes_len(filename.prefix) > Len(filename.prefix)
    /\ bytes_len(filename.postfix) > Len(filename.postfix)
    /\ bytes_len(filename.prefix) + bytes_len(filename.postfix) < FilenameMax
    /\ Len(urlsafe_b64encode(encode(filename.text)))
           > FilenameMax - bytes_len(filename.prefix) - bytes_len(filename.postfix)
    /\ bytes_len(filename.out) = FilenameMax

\* ----------------------------------------------------- slot claims
\* the slots of the semaphore that are taken; the semaphore is made when
\* the runner starts
Held == IF runner \in {"idle", "start"} THEN 0 ELSE concurrency_limit - sem_value

\* the waiters a released slot was passed to and that have not run since
HandedOver == {i \in Jobs : jpc[i] = "queued" /\ i \in woken}

Finished == runner \in {"returned", "raised", "cancelled"}

\* C37, as stated: at every instant the number of held slots equals the
\* number of jobs inside their operation, and it is 0 when the runner has
\* finished.
C37_SlotsAsStated ==
    /\ Held = Cardinality(Executing)
    /\ Finished => Held = 0

\* C37: every job gives its slot back on every exit path. The held slots
\* are those of the jobs inside their operation and those passed by a
\* release to a waiter that has not run yet; none is held when the runner
\* has finished, normally or by an error.
C37_SlotsReleased ==
    /\ Held = Cardinality(Executing) + Cardinality(HandedOver)
    /\ Finished => Held = 0

\* the runner was left by an error or a cancellation after jobs had taken
\* slots, and every slot is back
C37_Witness ==
    /\ runner \in {"raised", "cancelled"}
    /\ \E i \in Jobs : jpc[i] = "cancelled"
    /\ \E i \in Jobs : jpc[i] \in {"done", "raised"}
    /\ Held = 0

\* ------------------------------------------------- recomputation claims
\* C38: when a caller recomputes a key whose expired entry is still in the
\* cache, the miss leaves the cached keys and the key's lock as they are
\* (nothing is evicted, also at max_size), and the store puts the key in
\* the most recently used place.
C38_RecomputeInPlace ==
    [][\A c \in Callers :
          /\ (pc[c] # "computing" /\ pc'[c] = "computing"
                  /\ key'[c] \in CacheKeys(cache)) =>
                 /\ CacheKeys(cache') = CacheKeys(cache)
                 /\ key'[c] \in DOMAIN lock_map'
          /\ (pc[c] = "computing" /\ pc'[c] = "done"
                  /\ key[c] \in CacheKeys(cache)) =>
                 /\ CacheKeys(cache') = CacheKeys(cache)
                 /\ cache'[Len(cache')].key = key[c]]_vars

\* ------------------------------------------------------- page claims
\* C40: in capture_screenshots every page opened for a job is closed before
\* the job settles, the pages of failed attempts included: the open pages
\* are at most those of the jobs inside their operation, at most
\* concurrency_limit, and none when the batch has completed.
C40_PagesClosed ==
    kind = "screenshots" =>
        /\ open_pages <= Cardinality(Executing)
        /\ open_pages <= concurrency_limit
        /\ Finished => open_pages = 0

\* ------------------------------------------------------ progress claims
\* C39: if every invocation of the wrapped function terminates, every
\* caller that waits on a key lock or computes eventually returns or
\* raises, also when its lock has left the lock table meanwhile.
C39_CallersFinish ==
    \A c \in Callers :
        (pc[c] \in {"waiting", "computing"}) ~> (pc[c] \in {"done", "failed"})

\* caller c is queued on a lock that an eviction or a sweep has removed
\* from the lock table, behind the caller that holds it
C39_Witness ==
    \E c \in Callers :
        /\ pc[c] = "waiting"
        /\ locks[lockOf[c]].locked
        /\ \A k \in DOMAIN lock_map : lock_map[k] # lockOf[c]

====
